---------------------------- MODULE Spec2Model ----------------------------
(***************************************************************************)
(* Walk-forward backtester of vijayanajay/agent-trader: run_backtest        *)
(* (backtester.py) over the indicator pipeline (src/data_preprocessor.py),  *)
(* the deterministic scorer (src/pattern_scorer.py) and the risk model      *)
(* (src/risk_manager.py).                                                   *)
(*                                                                         *)
(* Numbers.  Prices and volumes are integers.  Derived values (ATR, score   *)
(* components) are exact rationals [n, d] with d > 0, kept in lowest terms. *)
(* final_score and entry_price, which the code rounds to two decimals, are  *)
(* integers counting hundredths; the risk levels are rationals in price     *)
(* units, rounded or not as the code leaves them.  A missing value (pandas  *)
(* NaN) is the pair 0/0 and an infinite one is 1/0.  Series are sequences;  *)
(* the code's zero-based positions are kept, so row i of the code is        *)
(* element i + 1 here.                                                      *)
(***************************************************************************)
EXTENDS Integers, Sequences, FiniteSets, TLC

VARIABLES days, swapped, descending, has_market, df, pc, i, trades, daily_logs, visited,
          scored, status, call, scorer_type, _llm_scorer_imported, audit_log,
          outputs

vars == <<days, swapped, descending, has_market, df, pc, i, trades, daily_logs, visited,
          scored, status, call, scorer_type, _llm_scorer_imported, audit_log,
          outputs>>

(* What run_backtest reads and never writes; call is a direct call of one
   function, outside any run. *)
inputs == <<days, swapped, descending, has_market, call, scorer_type, _llm_scorer_imported>>

(* Everything but call: the state of a run of main() *)
run_vars == <<days, swapped, descending, has_market, df, pc, i, trades, daily_logs, visited,
              scored, status, scorer_type, _llm_scorer_imported, audit_log,
              outputs>>

NaN == [n |-> 0, d |-> 0]
Inf == [n |-> 1, d |-> 0]
None == [is_none |-> TRUE, rows |-> <<>>]
IsNaN(x) == x = NaN

---------------------------------------------------------------------------
(* Exact rational arithmetic *)

Abs(x) == IF x < 0 THEN -x ELSE x

RECURSIVE Gcd(_, _)
Gcd(a, b) == IF b = 0 THEN a ELSE Gcd(b, a % b)

Rat(n, d) ==
    LET g == Gcd(Abs(n), Abs(d))
        s == IF d < 0 THEN -1 ELSE 1
    IN  [n |-> (s * n) \div g, d |-> (s * d) \div g]

RInt(k) == [n |-> k, d |-> 1]
RAdd(a, b) == Rat(a.n * b.d + b.n * a.d, a.d * b.d)
RSub(a, b) == Rat(a.n * b.d - b.n * a.d, a.d * b.d)
RMul(a, b) == Rat(a.n * b.n, a.d * b.d)
RDiv(a, b) == Rat(a.n * b.d, a.d * b.n)
RLe(a, b) == a.n * b.d <= b.n * a.d
RLt(a, b) == a.n * b.d < b.n * a.d
RMin(a, b) == IF RLe(a, b) THEN a ELSE b
RMax(a, b) == IF RLe(b, a) THEN a ELSE b
RZero == RInt(0)
(* a <= b as Python compares floats: False when either side is NaN *)
PyLe(a, b) == ~IsNaN(a) /\ ~IsNaN(b) /\ RLe(a, b)

(* Python's round(x, 2), as a count of hundredths: nearest, ties to even. *)
Round2(r) ==
    LET m == r.n * 100
        q == m \div r.d
        t == 2 * (m % r.d)
    IN  IF t < r.d THEN q
        ELSE IF t > r.d THEN q + 1
        ELSE IF q % 2 = 0 THEN q ELSE q + 1

---------------------------------------------------------------------------
(* Sequences with Python's indexing *)

RECURSIVE SumSeq(_)
SumSeq(s) == IF s = <<>> THEN 0 ELSE Head(s) + SumSeq(Tail(s))

Max2(a, b) == IF a >= b THEN a ELSE b
Min2(a, b) == IF a <= b THEN a ELSE b

RECURSIVE MaxSeq(_)
MaxSeq(s) == IF Len(s) = 1 THEN s[1]
             ELSE LET m == MaxSeq(Tail(s)) IN IF s[1] >= m THEN s[1] ELSE m

RECURSIVE MinSeq(_)
MinSeq(s) == IF Len(s) = 1 THEN s[1]
             ELSE LET m == MinSeq(Tail(s)) IN IF s[1] <= m THEN s[1] ELSE m

Col(s, f) == [k \in 1..Len(s) |-> s[k][f]]

(* s[a:b] of Python / DataFrame.iloc[a:b]: negative bounds count from the end,
   bounds are clipped, an empty range gives the empty sequence. *)
PyBound(x, n) == IF x < 0 THEN (IF x + n < 0 THEN 0 ELSE x + n)
                 ELSE IF x > n THEN n ELSE x

PySlice(s, a, b) ==
    LET lo == PyBound(a, Len(s))
        hi == PyBound(b, Len(s))
    IN  IF lo >= hi THEN <<>> ELSE SubSeq(s, lo + 1, hi)

(* s.iloc[-k] for 1 <= k <= Len(s) *)
FromEnd(s, k) == s[Len(s) - k + 1]

---------------------------------------------------------------------------
(* Configuration: BacktestConfig and ScorerConfig.  The windows are run at
   small sizes; the indicator periods, the threshold and the score maxima
   keep their defaults. *)

lookback_window == 2
forward_window == 2
score_threshold == 700
sma50_period == 50
atr_period == 14
Warmup == 50

relative_strength_lookback_days == 1
relative_strength_score_max == 4
volume_score_max == 3
sma_bonus_score == 3
volatility_score_max == 2
volatility_target_pct_low == Rat(3, 2)
volatility_target_pct_high == RInt(4)

(* relative_strength_score_max / 0.05 and volume_score_max / 1.0 *)
relative_strength_score_scale_factor == relative_strength_score_max * 20
volume_score_scale_factor == volume_score_max

---------------------------------------------------------------------------
(* Indicator pipeline: src/data_preprocessor.py *)

(* DataFrame.sort_index: ascending by Date (dates are unique after
   _load_data's de-duplication). *)
(* Variant: the frame is used in file order *)
SortIndexNone(s) == s

SortIndex(s) == SortSeq(s, LAMBDA a, b : a.Date < b.Date)

(* True range of row k >= 2.  On the first row the previous close is missing
   and the row-wise max (skipna=False) is NaN: _calculate_atr treats that row. *)
TrueRange(s, k) ==
    Max2(s[k].High - s[k].Low,
         Max2(Abs(s[k].High - s[k - 1].Close), Abs(s[k].Low - s[k - 1].Close)))

(* Running sums, as a rolling window keeps them: cc[k] is the sum of the closes
   of rows 1..k, ct[k] the sum of the true ranges of rows 2..k. *)
RECURSIVE CumClose(_, _)
CumClose(s, k) ==
    IF k = 0 THEN <<>>
    ELSE LET c == CumClose(s, k - 1)
         IN  Append(c, (IF k = 1 THEN 0 ELSE c[k - 1]) + s[k].Close)

RECURSIVE CumTrueRange(_, _)
CumTrueRange(s, k) ==
    IF k = 0 THEN <<>>
    ELSE LET c == CumTrueRange(s, k - 1)
         IN  Append(c, IF k = 1 THEN 0 ELSE c[k - 1] + TrueRange(s, k))

WindowSum(c, k, period) == c[k] - (IF k = period THEN 0 ELSE c[k - period])

(* Close.rolling(window).mean() at row k (1-based): NaN until the window is full. *)
RollingMeanClose(cc, k, period) ==
    IF k < period THEN NaN ELSE Rat(WindowSum(cc, k, period), period)

(* _calculate_atr: simple rolling mean of the true range; NaN while the window
   is not full or holds the first row's NaN. *)
_calculate_atr(ct, k, period) ==
    IF k < period \/ k - period + 1 = 1 THEN NaN
    ELSE Rat(WindowSum(ct, k, period), period)

(* Close.pct_change(): NaN on the first row and for 0/0, infinite for x/0. *)
PctChange(s, k) ==
    IF k = 1 THEN NaN
    ELSE IF s[k - 1].Close = 0
         THEN (IF s[k].Close = 0 THEN NaN ELSE Inf)
         ELSE Rat(s[k].Close - s[k - 1].Close, s[k - 1].Close)

Enrich(s, cc, ct, k) ==
    [Date |-> s[k].Date, Low |-> s[k].Low, High |-> s[k].High,
     Close |-> s[k].Close, Volume |-> s[k].Volume,
     sma50 |-> RollingMeanClose(cc, k, sma50_period),
     atr14 |-> _calculate_atr(ct, k, atr_period),
     pct_change |-> PctChange(s, k)]

(* Variant: only a missing ATR removes a row *)
HasNaNAtrOnly(s, cc, ct, k) == IsNaN(_calculate_atr(ct, k, atr_period))

(* A row dropna() removes: some indicator column is NaN *)
HasNaN(s, cc, ct, k) ==
    \/ IsNaN(RollingMeanClose(cc, k, sma50_period))
    \/ IsNaN(_calculate_atr(ct, k, atr_period))
    \/ IsNaN(PctChange(s, k))

(* The indicator columns added to the sorted frame s, then dropna(): kept lists
   the positions of the rows without a NaN. *)
EnrichAndDrop(s, cc, ct) ==
    LET kept == SelectSeq([k \in 1..Len(s) |-> k], LAMBDA k : ~HasNaN(s, cc, ct, k))
    IN  [j \in 1..Len(kept) |-> Enrich(s, cc, ct, kept[j])]

(* preprocess_data: copy, sort, add the indicator columns, dropna.  (The
   one-element sets only name the sorted copy and its running sums.) *)
preprocess_data(frame) ==
    CHOOSE out \in UNION {{EnrichAndDrop(s, cc, ct) :
                              cc \in {CumClose(s, Len(s))},
                              ct \in {CumTrueRange(s, Len(s))}} :
                           s \in {SortIndex(frame)}} : TRUE

---------------------------------------------------------------------------
(* Deterministic scorer: src/pattern_scorer.py *)

(* Python's max(0, x) and min(x, cap) on floats: a NaN x loses every
   comparison, so max(0, NaN) is 0. *)
PyMax0(x) == IF IsNaN(x) THEN RZero ELSE RMax(RZero, x)

(* (now - ago) / ago if ago else 0.0; a NaN price is truthy and gives NaN. *)
PeriodReturn(now, ago) ==
    IF IsNaN(now) \/ IsNaN(ago) THEN NaN
    ELSE IF ago.n = 0 THEN RZero
    ELSE RDiv(RSub(now, ago), ago)

(* Variant: the score is capped but not floored at zero *)
RelativeStrengthNoFloor(stock_df, market_df) ==
    LET lookback == relative_strength_lookback_days + 1 IN
    IF Len(stock_df) < lookback \/ market_df = <<>> \/ Len(market_df) < lookback
    THEN RZero
    ELSE LET stock_return == PeriodReturn(RInt(FromEnd(stock_df, 1).Close),
                                          RInt(FromEnd(stock_df, lookback).Close))
             market_return == PeriodReturn(FromEnd(market_df, 1).Close,
                                           FromEnd(market_df, lookback).Close)
             relative_return == IF IsNaN(market_return) THEN NaN
                                ELSE RSub(stock_return, market_return)
             raw_score == IF IsNaN(relative_return) THEN NaN
                          ELSE RMul(relative_return,
                                    RInt(relative_strength_score_scale_factor))
         IN  IF IsNaN(raw_score) THEN RZero
             ELSE RMin(raw_score, RInt(relative_strength_score_max))

(* Variant: without a market window the stock's own return is scored *)
RelativeStrengthOwnReturn(stock_df, market_df) ==
    LET lookback == relative_strength_lookback_days + 1 IN
    IF Len(stock_df) < lookback
    THEN RZero
    ELSE LET stock_return == PeriodReturn(RInt(FromEnd(stock_df, 1).Close),
                                          RInt(FromEnd(stock_df, lookback).Close))
             market_return == IF market_df = <<>> \/ Len(market_df) < lookback
                              THEN RZero
                              ELSE PeriodReturn(FromEnd(market_df, 1).Close,
                                                FromEnd(market_df, lookback).Close)
             relative_return == IF IsNaN(market_return) THEN NaN
                                ELSE RSub(stock_return, market_return)
             raw_score == IF IsNaN(relative_return) THEN NaN
                          ELSE RMul(relative_return,
                                    RInt(relative_strength_score_scale_factor))
         IN  RMin(PyMax0(raw_score), RInt(relative_strength_score_max))

_calculate_relative_strength_score(stock_df, market_df) ==
    LET lookback == relative_strength_lookback_days + 1 IN
    IF Len(stock_df) < lookback \/ market_df = <<>> \/ Len(market_df) < lookback
    THEN RZero
    ELSE LET stock_return == PeriodReturn(RInt(FromEnd(stock_df, 1).Close),
                                          RInt(FromEnd(stock_df, lookback).Close))
             market_return == PeriodReturn(FromEnd(market_df, 1).Close,
                                           FromEnd(market_df, lookback).Close)
             relative_return == IF IsNaN(market_return) THEN NaN
                                ELSE RSub(stock_return, market_return)
             raw_score == IF IsNaN(relative_return) THEN NaN
                          ELSE RMul(relative_return,
                                    RInt(relative_strength_score_scale_factor))
         IN  RMin(PyMax0(raw_score), RInt(relative_strength_score_max))

RECURSIVE InsertInt(_, _)
InsertInt(x, s) ==
    IF s = <<>> THEN <<x>>
    ELSE IF x <= Head(s) THEN <<x>> \o s
    ELSE <<Head(s)>> \o InsertInt(x, Tail(s))

RECURSIVE SortInts(_)
SortInts(s) == IF s = <<>> THEN <<>> ELSE InsertInt(Head(s), SortInts(Tail(s)))

(* Series.median() of a non-empty integer series *)
Median(s) ==
    LET t == SortInts(s)
        n == Len(t)
    IN  IF n % 2 = 1 THEN RInt(t[(n + 1) \div 2])
        ELSE Rat(t[n \div 2] + t[n \div 2 + 1], 2)

_calculate_volume_score(window) ==
    LET median_vol == Median(Col(window, "Volume"))
        current_vol == RInt(FromEnd(window, 1).Volume)
    IN  IF RLt(RZero, median_vol)
        THEN LET surge == RSub(RDiv(current_vol, median_vol), RInt(1))
             IN  RMin(PyMax0(RMul(surge, RInt(volume_score_scale_factor))),
                      RInt(volume_score_max))
        ELSE RZero

(* Variant: the bonus does not depend on the relative strength *)
VolatilityNoGate(price, atr14, relative_strength_score) ==
    IF price <= 0 \/ IsNaN(atr14)
    THEN RZero
    ELSE LET atr_pct == RMul(RDiv(atr14, RInt(price)), RInt(100))
             vol_range == RSub(volatility_target_pct_high, volatility_target_pct_low)
         IN  IF RLe(atr_pct, volatility_target_pct_low) THEN RInt(volatility_score_max)
             ELSE IF RLe(volatility_target_pct_high, atr_pct) THEN RZero
             ELSE IF RLe(vol_range, RZero) THEN RZero
             ELSE RMul(RInt(volatility_score_max),
                       RDiv(RSub(volatility_target_pct_high, atr_pct), vol_range))

_calculate_volatility_score(price, atr14, relative_strength_score) ==
    IF RLe(relative_strength_score, RZero) \/ price <= 0 \/ IsNaN(atr14)
    THEN RZero
    ELSE LET atr_pct == RMul(RDiv(atr14, RInt(price)), RInt(100))
             vol_range == RSub(volatility_target_pct_high, volatility_target_pct_low)
         IN  IF RLe(atr_pct, volatility_target_pct_low) THEN RInt(volatility_score_max)
             ELSE IF RLe(volatility_target_pct_high, atr_pct) THEN RZero
             ELSE IF RLe(vol_range, RZero) THEN RZero
             ELSE RMul(RInt(volatility_score_max),
                       RDiv(RSub(volatility_target_pct_high, atr_pct), vol_range))

(* Variant: a price equal to the average earns the bonus *)
SmaScoreInclusive(current_price, sma50) ==
    IF ~IsNaN(sma50) /\ RLe(sma50, RInt(current_price))
    THEN RInt(sma_bonus_score) ELSE RZero

SmaScore(current_price, sma50) ==
    IF ~IsNaN(sma50) /\ RLt(sma50, RInt(current_price))
    THEN RInt(sma_bonus_score) ELSE RZero

(* Variant: the gate also rejects a window of exactly the minimum length *)
ScoreGateOffByOne(window_df, market_window_df, current_price, sma50, atr14) ==
    IF Len(window_df) <= relative_strength_lookback_days + 1
    THEN [final_score |-> 0, relative_strength_score |-> RZero,
          volume_score |-> RZero, sma_score |-> RZero,
          volatility_score |-> RZero, description |-> "Not enough data"]
    ELSE LET rs == _calculate_relative_strength_score(window_df, market_window_df)
             vs == _calculate_volume_score(window_df)
             ss == SmaScore(current_price, sma50)
             vol == _calculate_volatility_score(current_price, atr14, rs)
         IN  [final_score |-> Round2(RAdd(RAdd(rs, vs), RAdd(ss, vol))),
              relative_strength_score |-> rs, volume_score |-> vs,
              sma_score |-> ss, volatility_score |-> vol,
              description |-> "RS Vol SMA Volatility"]

(* Variant: the total is clamped to 10 *)
ScoreClampedAtTen(window_df, market_window_df, current_price, sma50, atr14) ==
    IF Len(window_df) < relative_strength_lookback_days + 1
    THEN [final_score |-> 0, relative_strength_score |-> RZero,
          volume_score |-> RZero, sma_score |-> RZero,
          volatility_score |-> RZero, description |-> "Not enough data"]
    ELSE LET rs == _calculate_relative_strength_score(window_df, market_window_df)
             vs == _calculate_volume_score(window_df)
             ss == SmaScore(current_price, sma50)
             vol == _calculate_volatility_score(current_price, atr14, rs)
         IN  [final_score |-> Min2(1000, Round2(RAdd(RAdd(rs, vs), RAdd(ss, vol)))),
              relative_strength_score |-> rs, volume_score |-> vs,
              sma_score |-> ss, volatility_score |-> vol,
              description |-> "RS Vol SMA Volatility"]

(* score(): the data-sufficiency gate, the four components, their sum rounded
   to two decimals.  description keeps which of the two formats was written. *)
score(window_df, market_window_df, current_price, sma50, atr14) ==
    IF Len(window_df) < relative_strength_lookback_days + 1
    THEN [final_score |-> 0, relative_strength_score |-> RZero,
          volume_score |-> RZero, sma_score |-> RZero,
          volatility_score |-> RZero, description |-> "Not enough data"]
    ELSE LET rs == _calculate_relative_strength_score(window_df, market_window_df)
             vs == _calculate_volume_score(window_df)
             ss == SmaScore(current_price, sma50)
             vol == _calculate_volatility_score(current_price, atr14, rs)
         IN  [final_score |-> Round2(RAdd(RAdd(rs, vs), RAdd(ss, vol))),
              relative_strength_score |-> rs, volume_score |-> vs,
              sma_score |-> ss, volatility_score |-> vol,
              description |-> "RS Vol SMA Volatility"]

(* No call of score() in progress *)
NoCall ==
    [state |-> "idle", window_df |-> <<>>, market_window_df |-> <<>>,
     current_price |-> 0, sma50 |-> NaN, atr14 |-> NaN,
     result |-> [final_score |-> 0, relative_strength_score |-> RZero,
                 volume_score |-> RZero, sma_score |-> RZero,
                 volatility_score |-> RZero, description |-> ""]]

---------------------------------------------------------------------------
(* Risk model: src/risk_manager.py.  Price, ATR and levels are rationals; the
   neutral levels of the first branch are the price itself, not rounded.  A
   NaN ATR fails the test current_atr <= 0 and gives NaN levels. *)

(* Variant: only a negative ATR takes the neutral branch *)
ComputeRiskZeroAtrScaled(current_price, current_atr) ==
    IF IsNaN(current_atr)
    THEN [stop_loss |-> NaN, take_profit |-> NaN]
    ELSE IF RLt(current_atr, RZero)
    THEN [stop_loss |-> current_price, take_profit |-> current_price]
    ELSE [stop_loss |->
              Rat(Round2(RSub(current_price, RMul(RInt(2), current_atr))), 100),
          take_profit |->
              Rat(Round2(RAdd(current_price, RMul(RInt(4), current_atr))), 100)]

compute_risk(current_price, current_atr) ==
    IF IsNaN(current_atr)
    THEN [stop_loss |-> NaN, take_profit |-> NaN]
    ELSE IF RLe(current_atr, RZero)
    THEN [stop_loss |-> current_price, take_profit |-> current_price]
    ELSE [stop_loss |->
              Rat(Round2(RSub(current_price, RMul(RInt(2), current_atr))), 100),
          take_profit |->
              Rat(Round2(RAdd(current_price, RMul(RInt(4), current_atr))), 100)]

---------------------------------------------------------------------------
(* Inputs.  days lists the days after the warm-up, swapped tells whether the
   file has two of them out of order, descending whether the file lists its
   rows newest first, has_market whether the market file exists.  raw_df is the primary series as _load_data returns it (unique
   dates, file order) and market_regime the market frame as _load_market_data
   returns it (reindexed on the primary calendar, or None). *)

MaxExtra == 1
MaxEvents == 2

(* Rows consumed by the indicator warm-up: flat bars at 100 *)
FillerLen == Warmup - 1
FillerBar(d) == [Date |-> d, Low |-> 99, High |-> 101, Close |-> 100, Volume |-> 10]

(* Bars of the days after the warm-up: P plain at 110, D a dip to 50, S a spike
   to 200 on high volume, B both on one day, W a weak close back at 100. *)
Bar(d, shape) ==
    CASE shape = "P" -> [Date |-> d, Low |-> 109, High |-> 111, Close |-> 110, Volume |-> 10]
      [] shape = "D" -> [Date |-> d, Low |-> 50, High |-> 111, Close |-> 110, Volume |-> 10]
      [] shape = "S" -> [Date |-> d, Low |-> 109, High |-> 200, Close |-> 110, Volume |-> 30]
      [] shape = "B" -> [Date |-> d, Low |-> 50, High |-> 200, Close |-> 110, Volume |-> 10]
      [] shape = "W" -> [Date |-> d, Low |-> 99, High |-> 101, Close |-> 100, Volume |-> 10]

(* The market row of a date: a falling index with no long SMA yet during the
   warm-up, then per day an uptrend, a confirmed downtrend or an undefined SMA. *)
MarketRow(d, regime) ==
    IF d <= FillerLen
    THEN [Date |-> d, Close |-> RInt(IF d <= 10 THEN 1000 - 50 * d ELSE 500), sma200 |-> NaN]
    ELSE CASE regime = "up" -> [Date |-> d, Close |-> RInt(500), sma200 |-> RInt(400)]
           [] regime = "down" -> [Date |-> d, Close |-> RInt(300), sma200 |-> RInt(400)]
           [] regime = "nosma" -> [Date |-> d, Close |-> RInt(500), sma200 |-> NaN]

PlainDay == [shape |-> "P", regime |-> "up"]
StockEvents == {[shape |-> x, regime |-> "up"] : x \in {"D", "S", "B", "W"}}
RegimeEvents == {[shape |-> "P", regime |-> r] : r \in {"down", "nosma"}}

(* The events day p of total may show: a regime event only where the regime is
   read, on a day of the loop's range of a series with a market file. *)
EventsOn(p, total, mkt) ==
    IF mkt /\ p > lookback_window /\ p <= total - forward_window
    THEN StockEvents \cup RegimeEvents ELSE StockEvents

(* The first n days of the sequences of total days with at most e events *)
RECURSIVE DaySeqs(_, _, _, _)
DaySeqs(n, e, total, mkt) ==
    IF n = 0 THEN {<<>>}
    ELSE {Append(t, PlainDay) : t \in DaySeqs(n - 1, e, total, mkt)}
         \cup (IF e = 0 THEN {}
               ELSE {Append(t, x) : t \in DaySeqs(n - 1, e - 1, total, mkt),
                                    x \in EventsOn(n, total, mkt)})

(* Numbers of days after the warm-up: one too few for min_len, then enough for
   1 .. MaxExtra + 1 evaluable days *)
TailLens == {lookback_window + forward_window + x : x \in 0..(MaxExtra + 1)}

(* Events allowed in one input: MaxEvents for a sorted series of at least
   min_len rows with a market file, one less otherwise. *)
EventBudget(n, sw, mkt) ==
    IF mkt /\ ~sw /\ n > lookback_window + forward_window
    THEN MaxEvents ELSE MaxEvents - 1

(* File order: the dates ascending, or the two first evaluable days exchanged.
   DateAt is the date of the k-th row of the file. *)
DateAt(n, sw, k) ==
    LET at == FillerLen + lookback_window + 1 IN
    IF sw /\ at < n /\ k = at THEN at + 1
    ELSE IF sw /\ at < n /\ k = at + 1 THEN at
    ELSE k

BarOn(ds, d) == IF d <= FillerLen THEN FillerBar(d) ELSE Bar(d, ds[d - FillerLen].shape)

(* A file that lists the newest row first has the dates descending *)
FileDate(n, sw, desc, k) == IF desc THEN n + 1 - k ELSE DateAt(n, sw, k)

RawFrame(ds, sw, desc) ==
    [k \in 1..(FillerLen + Len(ds)) |->
        BarOn(ds, FileDate(FillerLen + Len(ds), sw, desc, k))]

(* reindex(main_index): one market row per primary row, in the primary order *)
MarketFrame(ds, sw, desc) ==
    [is_none |-> FALSE,
     rows |-> [k \in 1..(FillerLen + Len(ds)) |->
                 LET d == FileDate(FillerLen + Len(ds), sw, desc, k) IN
                 MarketRow(d, IF d <= FillerLen THEN "up" ELSE ds[d - FillerLen].regime)]]

raw_df == RawFrame(days, swapped, descending)
market_regime == IF has_market THEN MarketFrame(days, swapped, descending) ELSE None

---------------------------------------------------------------------------
(* backtester.py *)

STOP_LOSS_HIT == "STOP_LOSS_HIT"
TAKE_PROFIT_HIT == "TAKE_PROFIT_HIT"
HOLD_20_DAYS == "HOLD_20_DAYS"

(* The three-way decision of _get_trade_outcome on the forward window's
   extremes (prices are integers, levels rationals).  min()/max() of an empty
   window are NaN and lose both comparisons. *)
(* Variant: the take-profit test comes first *)
OutcomeOfTargetFirst(forward_df, risk_params) ==
    IF forward_df = <<>> THEN HOLD_20_DAYS
    ELSE LET min_forward == MinSeq(Col(forward_df, "Low"))
             max_forward == MaxSeq(Col(forward_df, "High"))
         IN  IF PyLe(risk_params.take_profit, RInt(max_forward)) THEN TAKE_PROFIT_HIT
             ELSE IF PyLe(RInt(min_forward), risk_params.stop_loss) THEN STOP_LOSS_HIT
             ELSE HOLD_20_DAYS

(* Variant: the take-profit test reads the Low column *)
OutcomeOfLowColumn(forward_df, risk_params) ==
    IF forward_df = <<>> THEN HOLD_20_DAYS
    ELSE LET min_forward == MinSeq(Col(forward_df, "Low"))
             max_forward == MaxSeq(Col(forward_df, "Low"))
         IN  IF PyLe(RInt(min_forward), risk_params.stop_loss) THEN STOP_LOSS_HIT
             ELSE IF PyLe(risk_params.take_profit, RInt(max_forward)) THEN TAKE_PROFIT_HIT
             ELSE HOLD_20_DAYS

OutcomeOf(forward_df, risk_params) ==
    IF forward_df = <<>> THEN HOLD_20_DAYS
    ELSE LET min_forward == MinSeq(Col(forward_df, "Low"))
             max_forward == MaxSeq(Col(forward_df, "High"))
         IN  IF PyLe(RInt(min_forward), risk_params.stop_loss) THEN STOP_LOSS_HIT
             ELSE IF PyLe(risk_params.take_profit, RInt(max_forward)) THEN TAKE_PROFIT_HIT
             ELSE HOLD_20_DAYS

(* ((final_price - entry_price) / entry_price) * 100, rounded to 2 decimals;
   a zero entry price divides by zero in floating point. *)
ForwardReturnPct(final_price, entry_price) ==
    IF entry_price = 0 THEN (IF final_price = 0 THEN NaN ELSE Inf)
    ELSE Rat(Round2(Rat(100 * (final_price - entry_price), entry_price)), 100)

(* Variant: the scan starts at the entry bar and stops one bar early *)
GetTradeOutcomeFromEntryBar(frame, k, risk_params) ==
    LET forward_df == PySlice(frame, k, k + forward_window)
        final_price == frame[k + forward_window + 1].Close
        entry_price == frame[k + 1].Close
    IN  [outcome |-> OutcomeOf(forward_df, risk_params),
         forward_return_pct |-> ForwardReturnPct(final_price, entry_price)]

(* _get_trade_outcome, for i + forward_window a valid position of frame *)
_get_trade_outcome(frame, k, risk_params) ==
    LET forward_df == PySlice(frame, k + 1, k + 1 + forward_window)
        final_price == frame[k + forward_window + 1].Close
        entry_price == frame[k + 1].Close
    IN  [outcome |-> OutcomeOf(forward_df, risk_params),
         forward_return_pct |-> ForwardReturnPct(final_price, entry_price)]

(* min_len = cfg.lookback_window + cfg.forward_window + 50 *)
min_len == lookback_window + forward_window + Warmup

(* What run_backtest does with a series shorter than min_len: return [], [] *)
(* Variant: a short series ends the process as a load error does *)
ShortSeriesExit == "exited"

ShortSeriesStatus == "returned"

(* range(cfg.lookback_window, len(df) - cfg.forward_window) *)
RangeStart == lookback_window
(* Variant: the loop runs to the end of the frame *)
RangeStopNoCut(frame) == Len(frame)

RangeStop(frame) == Len(frame) - forward_window

(* market_regime.loc[current_date]: the rows found for that date *)
RegimeLoc(regime, date) == SelectSeq(regime.rows, LAMBDA r : r.Date = date)

(* Variant: the regime test never skips *)
RegimeSkipsNever(regime, date) == FALSE

(* Variant: an undefined moving average blocks the day *)
RegimeSkipsNaNBlocks(regime, date) ==
    IF regime.is_none THEN FALSE
    ELSE LET found == RegimeLoc(regime, date) IN
         IF found = <<>> THEN FALSE
         ELSE LET regime_now == found[1] IN
              \/ IsNaN(regime_now.sma200)
              \/ IsNaN(regime_now.Close)
              \/ RLt(regime_now.Close, regime_now.sma200)

(* The regime test of the loop: TRUE when the day is skipped (continue).  A
   missing date raises KeyError, which is caught and lets the day pass. *)
RegimeSkips(regime, date) ==
    IF regime.is_none THEN FALSE
    ELSE LET found == RegimeLoc(regime, date) IN
         IF found = <<>> THEN FALSE
         ELSE LET regime_now == found[1] IN
              /\ ~IsNaN(regime_now.sma200)
              /\ ~IsNaN(regime_now.Close)
              /\ RLt(regime_now.Close, regime_now.sma200)

(* market_regime.iloc[i - lookback : i] if market_regime is not None else an
   empty frame: positions of the raw calendar, not of df. *)
MarketWindow(regime, k) ==
    IF regime.is_none THEN <<>>
    ELSE PySlice(regime.rows, k - lookback_window, k)

ScoreDay(frame, regime, k) ==
    score(PySlice(frame, k - lookback_window, k), MarketWindow(regime, k),
          frame[k + 1].Close, frame[k + 1].sma50, frame[k + 1].atr14)

(* Variant: the threshold is exclusive *)
TriggersStrict(score_result) == score_result.final_score > score_threshold

(* if score_result["final_score"] >= cfg.score_threshold *)
Triggers(score_result) == score_result.final_score >= score_threshold

(* Results of crew.kickoff as run_crew_analysis sees them: an exception, a
   falsy value, a string that is not JSON, a value that is neither string
   nor dict, a dict carrying an "error" key, a dict with a numeric
   pattern_strength_score, a JSON object whose score is null, and a JSON
   text that is a list. *)
KickoffResults == {"raises", "falsy", "bad_text", "other_type", "dict_error",
                   "dict_score", "text_null_score", "text_list"}

LlmErrorDict(message) ==
    [raised |-> FALSE, is_dict |-> TRUE, has_error |-> TRUE, error |-> message,
     pattern_strength_score |-> [kind |-> "missing", value |-> 0],
     pattern_description |-> "", rationale |-> ""]

LlmScoreDict(raw) ==
    [raised |-> FALSE, is_dict |-> TRUE, has_error |-> FALSE, error |-> "",
     pattern_strength_score |-> raw,
     pattern_description |-> "tight range", rationale |-> "steady accumulation"]

(* run_crew_analysis: nothing catches what get_llm_client, Agent, Crew or
   kickoff raise; json.loads of a JSON text that is not an object is
   returned as it is. *)
run_crew_analysis(kickoff) ==
    CASE kickoff = "raises" -> [LlmErrorDict("") EXCEPT !.raised = TRUE]
      [] kickoff = "falsy" -> LlmErrorDict("No response from crew")
      [] kickoff = "bad_text" -> LlmErrorDict("Invalid JSON response from LLM")
      [] kickoff = "other_type" -> LlmErrorDict("Unexpected response type from crew")
      [] kickoff = "dict_error" -> LlmErrorDict("API limit reached")
      [] kickoff = "dict_score" -> LlmScoreDict([kind |-> "number", value |-> 850])
      [] kickoff = "text_null_score" -> LlmScoreDict([kind |-> "null", value |-> 0])
      [] kickoff = "text_list" -> [LlmErrorDict("") EXCEPT !.is_dict = FALSE,
                                                          !.has_error = FALSE]

(* score(..., components_only=True): the four components of score() *)
score_components_only(window_df, market_window_df, current_price, sma50, atr14) ==
    LET r == score(window_df, market_window_df, current_price, sma50, atr14)
    IN  <<r.relative_strength_score, r.volume_score, r.sma_score,
          r.volatility_score>>

(* The LLM branch of the loop body for one returned llm_result.  raised tells
   that an exception leaves run_backtest: the one run_crew_analysis raised,
   or the AttributeError of llm_result.get on a value that is not a dict. *)
LlmDay(frame, k, llm_result) ==
    IF llm_result.raised \/ ~llm_result.is_dict
    THEN [raised |-> TRUE,
          score_result |-> [final_score |-> 0, description |-> ""]]
    ELSE IF llm_result.has_error
    THEN [raised |-> FALSE,
          score_result |-> [final_score |-> 0, description |-> "LLM_ERROR"]]
    ELSE LET llm_score_raw == llm_result.pattern_strength_score
             llm_score == IF llm_score_raw.kind = "number"
                          THEN llm_score_raw.value ELSE 0
             components == score_components_only(
                               PySlice(frame, k - lookback_window, k), <<>>,
                               frame[k + 1].Close, frame[k + 1].sma50,
                               frame[k + 1].atr14)
         IN  [raised |-> FALSE,
              score_result |->
                  [llm_pattern_score |-> llm_score,
                   llm_pattern_description |-> llm_result.pattern_description,
                   final_score |-> llm_score,
                   description |-> llm_result.rationale,
                   sma_score |-> components[3],
                   volatility_score |-> components[4]]]

(* log_entry = {date, price, **row, **score_result}: the keys are those of the
   score result, which differ between the scorers and for an LLM error. *)
LogEntry(frame, k, score_result) ==
    IF "relative_strength_score" \in DOMAIN score_result
    THEN [date |-> frame[k + 1].Date, price |-> frame[k + 1].Close,
          sma50 |-> frame[k + 1].sma50, atr14 |-> frame[k + 1].atr14,
          final_score |-> score_result.final_score,
          description |-> score_result.description,
          relative_strength_score |-> score_result.relative_strength_score,
          volume_score |-> score_result.volume_score,
          sma_score |-> score_result.sma_score,
          volatility_score |-> score_result.volatility_score]
    ELSE IF "llm_pattern_score" \in DOMAIN score_result
    THEN [date |-> frame[k + 1].Date, price |-> frame[k + 1].Close,
          sma50 |-> frame[k + 1].sma50, atr14 |-> frame[k + 1].atr14,
          final_score |-> score_result.final_score,
          description |-> score_result.description,
          llm_pattern_score |-> score_result.llm_pattern_score,
          llm_pattern_description |-> score_result.llm_pattern_description,
          sma_score |-> score_result.sma_score,
          volatility_score |-> score_result.volatility_score]
    ELSE [date |-> frame[k + 1].Date, price |-> frame[k + 1].Close,
          sma50 |-> frame[k + 1].sma50, atr14 |-> frame[k + 1].atr14,
          final_score |-> score_result.final_score,
          description |-> score_result.description]

TradeEntry(frame, k, score_result) ==
    LET risk_params == compute_risk(RInt(frame[k + 1].Close), frame[k + 1].atr14)
        trade_outcome == _get_trade_outcome(frame, k, risk_params)
    IN  IF scorer_type = "llm"
        THEN [entry_date |-> frame[k + 1].Date,
              entry_price |-> 100 * frame[k + 1].Close,
              pattern_score |-> score_result.final_score,
              pattern_desc |-> score_result.description,
              stop_loss |-> risk_params.stop_loss,
              take_profit |-> risk_params.take_profit,
              outcome |-> trade_outcome.outcome,
              forward_return_pct |-> trade_outcome.forward_return_pct,
              llm_pattern_score |-> score_result.llm_pattern_score,
              llm_pattern_description |-> score_result.llm_pattern_description,
              sma_score |-> score_result.sma_score,
              volatility_score |-> score_result.volatility_score]
        ELSE [entry_date |-> frame[k + 1].Date,
              entry_price |-> 100 * frame[k + 1].Close,
              pattern_score |-> score_result.final_score,
              pattern_desc |-> score_result.description,
              stop_loss |-> risk_params.stop_loss,
              take_profit |-> risk_params.take_profit,
              outcome |-> trade_outcome.outcome,
              forward_return_pct |-> trade_outcome.forward_return_pct,
              relative_strength_score |-> score_result.relative_strength_score,
              volume_score |-> score_result.volume_score,
              sma_score |-> score_result.sma_score,
              volatility_score |-> score_result.volatility_score]

(* No file written yet *)
NoOutputs ==
    [results_csv |-> [written |-> FALSE, columns |-> "", rows |-> 0],
     run_log_csv |-> [written |-> FALSE, rows |-> 0]]

(* _save_results: the trades file is always written, with the header of the
   scorer's columns when there is no trade; the run log is written only when
   daily_logs is not empty. *)
_save_results(trade_list, log_list, scorer) ==
    [results_csv |->
         [written |-> TRUE,
          columns |-> IF trade_list # <<>> THEN "trade keys"
                      ELSE IF scorer = "llm" THEN "base + llm"
                      ELSE "base + deterministic",
          rows |-> Len(trade_list)],
     run_log_csv |->
         IF log_list # <<>>
         THEN [written |-> TRUE, rows |-> Len(log_list)]
         ELSE [written |-> FALSE, rows |-> 0]]

(* run_backtest up to the loop: the exit when the LLM scorer is asked for and
   its import failed, the length gate, then preprocess_data *)
Start ==
    /\ pc = "start"
    /\ IF scorer_type = "llm" /\ ~_llm_scorer_imported
       THEN /\ pc' = "done"
            /\ status' = "exited"
            /\ UNCHANGED <<df, i>>
       ELSE IF Len(raw_df) < min_len
       THEN /\ pc' = "done"
            /\ status' = ShortSeriesStatus
            /\ UNCHANGED <<df, i>>
       ELSE /\ df' = preprocess_data(raw_df)
            /\ i' = RangeStart
            /\ pc' = "loop"
            /\ UNCHANGED status
    /\ UNCHANGED <<inputs, trades, daily_logs, visited, scored, audit_log, outputs>>

InLoop == pc = "loop" /\ i < RangeStop(df)

(* One iteration of the loop on day i.  A day that fails the regime filter is
   left by continue.  Otherwise the day is scored and logged, and a trade is
   recorded when the score reaches the threshold; reading
   Close.iloc[i + forward_window] past the end would raise IndexError, which
   leaves run_backtest. *)
(* Variant: one position at a time, a day that qualifies while the forward
   window of the last trade is still open records no trade *)
RecordDayOnePosition(score_result) ==
    /\ scored' = Append(scored, i)
    /\ daily_logs' = Append(daily_logs, LogEntry(df, i, score_result))
    /\ IF /\ Triggers(score_result)
          /\ \/ trades = <<>>
             \/ trades[Len(trades)].entry_date + forward_window < df[i + 1].Date
       THEN /\ trades' = Append(trades, TradeEntry(df, i, score_result))
            /\ i' = i + 1
            /\ UNCHANGED <<pc, status>>
       ELSE /\ i' = i + 1
            /\ UNCHANGED <<pc, trades, status>>

(* Variant: a day that records a trade is not logged *)
RecordDayTradeOnly(score_result) ==
    /\ scored' = Append(scored, i)
    /\ IF Triggers(score_result)
       THEN /\ trades' = Append(trades, TradeEntry(df, i, score_result))
            /\ i' = i + 1
            /\ UNCHANGED <<pc, status, daily_logs>>
       ELSE /\ daily_logs' = Append(daily_logs, LogEntry(df, i, score_result))
            /\ i' = i + 1
            /\ UNCHANGED <<pc, trades, status>>

RecordDay(score_result) ==
    /\ scored' = Append(scored, i)
    /\ daily_logs' = Append(daily_logs, LogEntry(df, i, score_result))
    /\ IF Triggers(score_result)
       THEN IF i + forward_window < Len(df)
            THEN /\ trades' = Append(trades, TradeEntry(df, i, score_result))
                 /\ i' = i + 1
                 /\ UNCHANGED <<pc, status>>
            ELSE /\ pc' = "done"
                 /\ status' = "IndexError"
                 /\ UNCHANGED <<trades, i>>
       ELSE /\ i' = i + 1
            /\ UNCHANGED <<pc, trades, status>>

(* With the LLM scorer the day's result is what run_crew_analysis makes of
   the crew's answer; an exception in it leaves run_backtest, as nothing in
   the loop catches it. *)
Iterate ==
    /\ InLoop
    /\ visited' = Append(visited, i)
    /\ IF RegimeSkips(market_regime, df[i + 1].Date)
       THEN /\ i' = i + 1
            /\ UNCHANGED <<pc, trades, daily_logs, scored, status>>
       ELSE IF scorer_type = "llm" /\ _llm_scorer_imported
       THEN \E kickoff \in KickoffResults :
                LET day == LlmDay(df, i, run_crew_analysis(kickoff)) IN
                IF day.raised
                THEN /\ pc' = "done"
                     /\ status' = "raised"
                     /\ UNCHANGED <<i, trades, daily_logs, scored>>
                ELSE RecordDay(day.score_result)
       ELSE RecordDay(ScoreDay(df, market_regime, i))
    /\ UNCHANGED <<inputs, df, audit_log, outputs>>

(* The range is exhausted: return trades, daily_logs *)
Finish ==
    /\ pc = "loop"
    /\ ~(i < RangeStop(df))
    /\ pc' = "done"
    /\ status' = "returned"
    /\ UNCHANGED <<inputs, df, i, trades, daily_logs, visited, scored,
                   audit_log, outputs>>

(* main() after run_backtest returned: _save_results(trades, daily_logs, ...) *)
Save ==
    /\ pc = "done"
    /\ status = "returned"
    /\ outputs' = _save_results(trades, daily_logs, scorer_type)
    /\ pc' = "saved"
    /\ UNCHANGED <<inputs, df, i, trades, daily_logs, visited, scored, status,
                   audit_log>>

Next == Start \/ Iterate \/ Finish \/ Save

Init ==
    /\ has_market \in BOOLEAN
    /\ swapped \in BOOLEAN
    /\ descending = FALSE
    /\ \E n \in TailLens :
         days \in DaySeqs(n, EventBudget(n, swapped, has_market), n, has_market)
    /\ df = <<>>
    /\ pc = "start"
    /\ i = 0
    /\ trades = <<>>
    /\ daily_logs = <<>>
    /\ visited = <<>>
    /\ scored = <<>>
    /\ status = "running"
    /\ call = NoCall
    /\ scorer_type = "deterministic"
    /\ _llm_scorer_imported = TRUE
    /\ audit_log = <<>>
    /\ outputs = NoOutputs

Spec == Init /\ [][Next]_vars

(* Runs over files in either row order, with a market file and at most one
   event on any day after the warm-up *)
RECURSIVE AnyDaySeqs(_, _)
AnyDaySeqs(n, e) ==
    IF n = 0 THEN {<<>>}
    ELSE {Append(t, PlainDay) : t \in AnyDaySeqs(n - 1, e)}
         \cup (IF e = 0 THEN {}
               ELSE {Append(t, x) : t \in AnyDaySeqs(n - 1, e - 1),
                                    x \in StockEvents \cup RegimeEvents})

InitOrder ==
    /\ has_market = TRUE
    /\ swapped = FALSE
    /\ descending \in BOOLEAN
    /\ \E n \in TailLens : days \in AnyDaySeqs(n, 1)
    /\ df = <<>>
    /\ pc = "start"
    /\ i = 0
    /\ trades = <<>>
    /\ daily_logs = <<>>
    /\ visited = <<>>
    /\ scored = <<>>
    /\ status = "running"
    /\ call = NoCall
    /\ scorer_type = "deterministic"
    /\ _llm_scorer_imported = TRUE
    /\ audit_log = <<>>
    /\ outputs = NoOutputs

SpecOrder == InitOrder /\ [][Next]_vars

(* Runs with the LLM scorer, over sorted series with at most one event *)
InitLLMRun ==
    /\ has_market \in BOOLEAN
    /\ swapped = FALSE
    /\ descending = FALSE
    /\ \E n \in TailLens : days \in DaySeqs(n, MaxEvents - 1, n, has_market)
    /\ df = <<>>
    /\ pc = "start"
    /\ i = 0
    /\ trades = <<>>
    /\ daily_logs = <<>>
    /\ visited = <<>>
    /\ scored = <<>>
    /\ status = "running"
    /\ call = NoCall
    /\ scorer_type = "llm"
    /\ _llm_scorer_imported \in BOOLEAN
    /\ audit_log = <<>>
    /\ outputs = NoOutputs

---------------------------------------------------------------------------
(* No run of main(): the state in which single functions are called *)
NoRun ==
    /\ days = <<>> /\ swapped = FALSE /\ descending = FALSE /\ has_market = FALSE
    /\ df = <<>> /\ pc = "idle" /\ i = 0
    /\ trades = <<>> /\ daily_logs = <<>> /\ visited = <<>> /\ scored = <<>>
    /\ status = "idle"
    /\ scorer_type = "deterministic" /\ _llm_scorer_imported = FALSE
    /\ audit_log = <<>> /\ outputs = NoOutputs

(* Direct calls of score(): one call per behaviour, its arguments drawn from
   the values the pipeline can hand to the scorer (finite prices and volumes,
   a market close, sma50 or atr14 that may be NaN, an empty or short market
   window, a window below the data-sufficiency gate). *)

ScoreBars == {[Close |-> 0, Volume |-> 0], [Close |-> 100, Volume |-> 10],
              [Close |-> 110, Volume |-> 30], [Close |-> 110, Volume |-> 10]}
ScoreWindowLens ==
    relative_strength_lookback_days..(relative_strength_lookback_days + 2)
ScoreWindows == UNION {[1..n -> ScoreBars] : n \in ScoreWindowLens}

MarketCloses == {NaN, RZero, RInt(100), RInt(107)}
(* A market window of n rows that starts at close ago and ends at close now *)
MarketSpan(ago, now, n) ==
    [k \in 1..n |-> [Close |-> IF k = 1 THEN ago ELSE now]]
ScoreMarketWindows ==
    {<<>>, MarketSpan(RInt(100), RInt(100), relative_strength_lookback_days)}
    \cup {MarketSpan(ago, now, relative_strength_lookback_days + 1) :
              ago \in MarketCloses, now \in MarketCloses}
ScorePrices == {0, 100, 110}
ScoreSmas == {NaN, RInt(100)}
ScoreAtrs == {NaN, RInt(1), RInt(3), RInt(5)}

InitScore ==
    /\ NoRun
    /\ \E w \in ScoreWindows, m \in ScoreMarketWindows, p \in ScorePrices,
          s \in ScoreSmas, a \in ScoreAtrs :
          call = [state |-> "pending", window_df |-> w, market_window_df |-> m,
                  current_price |-> p, sma50 |-> s, atr14 |-> a,
                  result |-> NoCall.result]

ScoreCall ==
    /\ call.state = "pending"
    /\ call' = [call EXCEPT
                   !.state = "returned",
                   !.result = score(call.window_df, call.market_window_df,
                                    call.current_price, call.sma50, call.atr14)]
    /\ UNCHANGED run_vars

NextScore == ScoreCall

SpecScore == InitScore /\ [][NextScore]_vars

---------------------------------------------------------------------------
(* Direct calls of compute_risk(): one call per behaviour, over prices that
   are and are not whole cents and ATRs that are negative, zero, below the
   rounding step, not whole cents, and large. *)

RiskPrices == {RZero, Rat(1, 100), RInt(1), RInt(100), Rat(25001, 250),
               Rat(20001, 200), RInt(110), Rat(501, 2)}
RiskAtrs == {RInt(-1), Rat(-1, 1000), RZero, Rat(1, 10000), Rat(1, 1000),
             Rat(1, 3), Rat(37, 14), RInt(5)}

InitRisk ==
    /\ NoRun
    /\ \E p \in RiskPrices, a \in RiskAtrs :
          call = [state |-> "pending", current_price |-> p, current_atr |-> a,
                  result |-> [stop_loss |-> NaN, take_profit |-> NaN]]

RiskCall ==
    /\ call.state = "pending"
    /\ call' = [call EXCEPT
                   !.state = "returned",
                   !.result = compute_risk(call.current_price, call.current_atr)]
    /\ UNCHANGED run_vars

NextRisk == RiskCall

SpecRisk == InitRisk /\ [][NextRisk]_vars

----------------------------------------------------------------------------
(* The trade step of the loop body, src/backtester.py lines 194-216, called
   on an enriched frame at its first row: the threshold test,
   calculate_risk_parameters, _get_trade_outcome and the trade record.  The
   entry day is an ordinary bar, a bar closing at zero (a bad tick after a
   strong window: relative strength and volume alone reach the threshold), or
   a bar of a series that has not moved for atr_period days, whose ATR is
   zero. *)

EnrichedBar(d, low, high, close, atr) ==
    [Date |-> d, Low |-> low, High |-> high, Close |-> close, Volume |-> 10,
     sma50 |-> RInt(100), atr14 |-> atr, pct_change |-> RZero]

EntryBars ==
    {EnrichedBar(1, 99, 101, 100, RInt(2)),
     EnrichedBar(1, 100, 100, 100, RZero),
     EnrichedBar(1, 0, 100, 0, RInt(2))}

ForwardBars(d) ==
    {EnrichedBar(d, 99, 101, 100, RInt(2)),
     EnrichedBar(d, 90, 101, 95, RInt(2)),
     EnrichedBar(d, 99, 120, 110, RInt(2)),
     EnrichedBar(d, 0, 100, 0, RInt(2))}

(* Frames of one entry bar followed by forward_window bars *)
RECURSIVE TradeFrames(_)
TradeFrames(n) ==
    IF n = 0 THEN {<<e>> : e \in EntryBars}
    ELSE {Append(f, b) : f \in TradeFrames(n - 1), b \in ForwardBars(n + 1)}

(* The score result of an entry day after a window with full relative
   strength and the given volume score: the trend and volatility components
   are those score() computes from the day's own close, sma50 and atr14. *)
DayScore(bar, volume_score) ==
    LET rs == RInt(relative_strength_score_max)
        ss == SmaScore(bar.Close, bar.sma50)
        vol == _calculate_volatility_score(bar.Close, bar.atr14, rs)
    IN  [final_score |-> Round2(RAdd(RAdd(rs, volume_score), RAdd(ss, vol))),
         relative_strength_score |-> rs, volume_score |-> volume_score,
         sma_score |-> ss, volatility_score |-> vol,
         description |-> "RS Vol SMA Volatility"]

WindowVolumeScores == {Rat(5, 2), RInt(volume_score_max)}

InitTrade ==
    /\ NoRun
    /\ \E f \in TradeFrames(forward_window), v \in WindowVolumeScores :
          call = [state |-> "pending", frame |-> f, position |-> 0,
                  score_result |-> DayScore(f[1], v), appended |-> <<>>]

TradeCall ==
    /\ call.state = "pending"
    /\ call' = [call EXCEPT
                   !.state = "returned",
                   !.appended = IF Triggers(call.score_result)
                                THEN <<TradeEntry(call.frame, call.position,
                                                  call.score_result)>>
                                ELSE <<>>]
    /\ UNCHANGED run_vars

NextTrade == TradeCall

SpecTrade == InitTrade /\ [][NextTrade]_vars

----------------------------------------------------------------------------
(* LLM adapter: src/adapters/llm.py.  A call is described by what its
   environment does: whether OPENROUTER_API_KEY is set, how the POST ends,
   what the response body holds and whether the audit file can be appended. *)

HttpOutcomes == {"ok", "status_error", "transport_error"}

(* Bodies: not JSON; JSON without choices or usage; content without a {...}
   block; content whose {...} block is not JSON; content with a JSON object *)
ResponseBodies == {"not_json", "missing_key", "no_object", "broken_object",
                   "object"}

AdapterError(message) == [error |-> message, usable |-> FALSE]

(* get_llm_analysis: the record returned and whether _log_llm_audit appended
   its line on the way *)
get_llm_analysis(api_key, http, body, audit_writable) ==
    IF ~api_key
    THEN [result |-> AdapterError("OPENROUTER_API_KEY not found"), audited |-> FALSE]
    ELSE IF http = "status_error"
    THEN [result |-> AdapterError("API_HTTP_ERROR"), audited |-> FALSE]
    ELSE IF http = "transport_error"
    THEN [result |-> AdapterError("UNKNOWN_API_ERROR"), audited |-> FALSE]
    ELSE IF body \in {"not_json", "missing_key"}
    THEN [result |-> AdapterError("API_RESPONSE_ERROR"), audited |-> FALSE]
    ELSE IF ~audit_writable
    THEN [result |-> AdapterError("UNKNOWN_API_ERROR"), audited |-> FALSE]
    ELSE IF body = "object"
    THEN [result |-> [error |-> "", usable |-> TRUE], audited |-> TRUE]
    ELSE [result |-> AdapterError("API_RESPONSE_ERROR"), audited |-> TRUE]

(* _log_llm_audit: one line appended to results/llm_audit.log *)
_log_llm_audit(log, response) == Append(log, [response |-> response])

(* Direct calls of get_llm_analysis *)
InitLLMCall ==
    /\ NoRun
    /\ \E k \in BOOLEAN, h \in HttpOutcomes, b \in ResponseBodies, w \in BOOLEAN :
          call = [state |-> "pending", api_key |-> k, http |-> h, body |-> b,
                  audit_writable |-> w, result |-> AdapterError("")]

LlmCall ==
    /\ call.state = "pending"
    /\ LET r == get_llm_analysis(call.api_key, call.http, call.body,
                                 call.audit_writable) IN
       /\ call' = [call EXCEPT !.state = "returned", !.result = r.result]
       /\ audit_log' = IF r.audited THEN _log_llm_audit(audit_log, call.body)
                       ELSE audit_log
    /\ UNCHANGED <<days, swapped, descending, has_market, df, pc, i, trades, daily_logs,
                   visited, scored, status, scorer_type, _llm_scorer_imported,
                   outputs>>

(* The LLM strategy: runs of main() with the LLM scorer, and direct calls of
   the adapter *)
InitLLM == InitLLMRun \/ InitLLMCall

NextLLM == Next \/ LlmCall

SpecLLM == InitLLM /\ [][NextLLM]_vars

----------------------------------------------------------------------------
(* Performance metrics: src/analysis/results.py.  A results frame is the name
   of its return column and the returns of its rows, in whole percents. *)

MaxTrades == 3

EmptyMetrics == [total_trades |-> 0, win_rate |-> RZero, profit_factor |-> RZero]

AnalyzeZeroCountsAsWin(results_df) ==
    IF results_df.rows = <<>>
       \/ results_df.column \notin {"return_pct", "forward_return_pct"}
    THEN EmptyMetrics
    ELSE LET total_trades == Len(results_df.rows)
             winning_trades == SelectSeq(results_df.rows, LAMBDA x : x >= 0)
             losing_trades == SelectSeq(results_df.rows, LAMBDA x : x < 0)
             gross_profit == SumSeq(winning_trades)
             gross_loss == Abs(SumSeq(losing_trades))
         IN  [total_trades |-> total_trades,
              win_rate |-> Rat(Round2(Rat(Len(winning_trades) * 100, total_trades)), 100),
              profit_factor |->
                  IF gross_loss > 0
                  THEN Rat(Round2(Rat(gross_profit, gross_loss)), 100)
                  ELSE IF gross_profit > 0 THEN Inf ELSE RZero]

analyze_results(results_df) ==
    IF results_df.rows = <<>>
       \/ results_df.column \notin {"return_pct", "forward_return_pct"}
    THEN EmptyMetrics
    ELSE LET total_trades == Len(results_df.rows)
             winning_trades == SelectSeq(results_df.rows, LAMBDA x : x > 0)
             losing_trades == SelectSeq(results_df.rows, LAMBDA x : x < 0)
             gross_profit == SumSeq(winning_trades)
             gross_loss == Abs(SumSeq(losing_trades))
         IN  [total_trades |-> total_trades,
              win_rate |-> Rat(Round2(Rat(Len(winning_trades) * 100, total_trades)), 100),
              profit_factor |->
                  IF gross_loss > 0
                  THEN Rat(Round2(Rat(gross_profit, gross_loss)), 100)
                  ELSE IF gross_profit > 0 THEN Inf ELSE RZero]

(* Direct calls of analyze_results *)
ReturnPcts == {-10, -5, 0, 5, 10, 20}

ReturnColumns == {"return_pct", "forward_return_pct", "entry_price"}

RECURSIVE ReturnSeqs(_)
ReturnSeqs(n) ==
    IF n = 0 THEN {<<>>}
    ELSE ReturnSeqs(n - 1)
         \cup {Append(t, x) : t \in {u \in ReturnSeqs(n - 1) : Len(u) = n - 1},
                              x \in ReturnPcts}

InitAnalysis ==
    /\ NoRun
    /\ \E c \in ReturnColumns, r \in ReturnSeqs(MaxTrades) :
          call = [state |-> "pending",
                  results_df |-> [column |-> c, rows |-> r],
                  result |-> EmptyMetrics]

AnalyzeCall ==
    /\ call.state = "pending"
    /\ call' = [call EXCEPT !.state = "returned",
                            !.result = analyze_results(call.results_df)]
    /\ UNCHANGED run_vars

NextAnalysis == AnalyzeCall

SpecAnalysis == InitAnalysis /\ [][NextAnalysis]_vars

----------------------------------------------------------------------------
(* Data fetch: scripts/fetch_ohlcv.py, download_ticker.  A call is described
   by its dry_run flag, by whether yfinance can be imported, by which history
   request the arguments select, and by how each attempt the loop may make
   would end: the data saved, an empty answer, or an exception in the try
   body (the request or the write of the file). *)

RETRIES == 2

AttemptOutcomes == {"saved", "empty", "raises"}

(* Variant: an empty answer is retried like an exception *)
AttemptRetriesEmpty(outcome, attempt) ==
    CASE outcome = "saved" -> [done |-> TRUE, result |-> TRUE, sleeps |-> FALSE]
      [] outcome \in {"empty", "raises"} ->
            IF attempt < RETRIES
            THEN [done |-> FALSE, result |-> FALSE, sleeps |-> TRUE]
            ELSE [done |-> TRUE, result |-> FALSE, sleeps |-> FALSE]

(* One pass of the body of for attempt in range(1, RETRIES + 1) *)
DownloadAttempt(outcome, attempt) ==
    CASE outcome = "saved" -> [done |-> TRUE, result |-> TRUE, sleeps |-> FALSE]
      [] outcome = "empty" -> [done |-> TRUE, result |-> FALSE, sleeps |-> FALSE]
      [] outcome = "raises" ->
            IF attempt < RETRIES
            THEN [done |-> FALSE, result |-> FALSE, sleeps |-> TRUE]
            ELSE [done |-> TRUE, result |-> FALSE, sleeps |-> FALSE]

InitFetch ==
    /\ NoRun
    /\ \E d \in BOOLEAN, y \in BOOLEAN, r \in BOOLEAN,
          o \in [1..RETRIES -> AttemptOutcomes] :
          call = [state |-> "pending", dry_run |-> d, yfinance |-> y,
                  has_range |-> r, outcomes |-> o, request |-> "",
                  attempts |-> 0, sleeps |-> 0, result |-> FALSE]

(* download_ticker up to the loop: the dry-run return and the lazy import *)
FetchEnter ==
    /\ call.state = "pending"
    /\ call' = IF call.dry_run
               THEN [call EXCEPT !.state = "returned", !.result = TRUE]
               ELSE IF ~call.yfinance
               THEN [call EXCEPT !.state = "returned", !.result = FALSE]
               ELSE [call EXCEPT !.state = "loop"]
    /\ UNCHANGED run_vars

(* One attempt; the loop is left by a return in its last pass at the latest *)
FetchAttempt ==
    /\ call.state = "loop"
    /\ call.attempts < RETRIES
    /\ LET attempt == call.attempts + 1
           step == DownloadAttempt(call.outcomes[attempt], attempt)
       IN  call' = [call EXCEPT
                       !.attempts = attempt,
                       !.request = IF call.has_range THEN "start/end"
                                   ELSE "period",
                       !.sleeps = IF step.sleeps THEN @ + 1 ELSE @,
                       !.state = IF step.done THEN "returned" ELSE "loop",
                       !.result = step.result]
    /\ UNCHANGED run_vars

NextFetch == FetchEnter \/ FetchAttempt

(* The call runs on: no step of it waits for anything but the bounded sleep *)
SpecFetch == InitFetch /\ [][NextFetch]_vars /\ WF_vars(NextFetch)

---------------------------------------------------------------------------
(* Properties of run_backtest *)

(* Position in df of the row dated d *)
IndexOfDate(d) == CHOOSE k \in 0..(Len(df) - 1) : df[k + 1].Date = d

(* The bar j days after the entry of trade t, and what it touches *)
ForwardBar(t, j) == df[IndexOfDate(t.entry_date) + 1 + j]
TouchesStop(t, j) == RLe(RInt(ForwardBar(t, j).Low), t.stop_loss)
TouchesTarget(t, j) == RLe(t.take_profit, RInt(ForwardBar(t, j).High))
Touches(t, j) == TouchesStop(t, j) \/ TouchesTarget(t, j)
Horizon == 1..forward_window
IsFirstTouch(t, j) == Touches(t, j) /\ \A h \in 1..(j - 1) : ~Touches(t, h)
TradeSet == {trades[k] : k \in 1..Len(trades)}

(* C1: first-touch resolution.  For every recorded trade, the first forward
   bar (in date order) that touches a level decides the outcome: STOP_LOSS_HIT
   if that bar reaches the stop, TAKE_PROFIT_HIT if it reaches only the target,
   whatever later bars do. *)
C1_FirstTouchDecides ==
    \A t \in TradeSet : \A j \in Horizon :
        IsFirstTouch(t, j) =>
            t.outcome = IF TouchesStop(t, j) THEN STOP_LOSS_HIT ELSE TAKE_PROFIT_HIT

(* C2: when the first forward bar that touches a level touches both on the
   same day, the trade is STOP_LOSS_HIT. *)
C2_SameDayStopFirst ==
    \A t \in TradeSet : \A j \in Horizon :
        (IsFirstTouch(t, j) /\ TouchesStop(t, j) /\ TouchesTarget(t, j))
            => t.outcome = STOP_LOSS_HIT

C2_Witness ==
    \E t \in TradeSet : \E j \in Horizon :
        /\ IsFirstTouch(t, j) /\ TouchesStop(t, j) /\ TouchesTarget(t, j)
        /\ t.outcome = STOP_LOSS_HIT

(* C3: every trade has one of the three outcomes; it is the hold outcome
   exactly when no forward bar reaches the stop and none reaches the target,
   and TAKE_PROFIT_HIT whenever the target is reached and the stop never is. *)
C3_OutcomeCases ==
    \A t \in TradeSet :
        LET stop == \E j \in Horizon : TouchesStop(t, j)
            target == \E j \in Horizon : TouchesTarget(t, j)
        IN  /\ t.outcome \in {STOP_LOSS_HIT, TAKE_PROFIT_HIT, HOLD_20_DAYS}
            /\ (t.outcome = HOLD_20_DAYS) <=> (~stop /\ ~target)
            /\ (target /\ ~stop) => t.outcome = TAKE_PROFIT_HIT

C3_Witness ==
    /\ \E t \in TradeSet : t.outcome = HOLD_20_DAYS
    /\ \E t \in TradeSet :
          /\ t.outcome = TAKE_PROFIT_HIT
          /\ \E j \in Horizon : TouchesTarget(t, j)
          /\ \A j \in Horizon : ~TouchesStop(t, j)

(* Positions, dates and records of the run so far *)
VisitedSet == {visited[k] : k \in 1..Len(visited)}
ScoredSet == {scored[k] : k \in 1..Len(scored)}
DateOf(k) == df[k + 1].Date
LogsOn(d) == SelectSeq(daily_logs, LAMBDA r : r.date = d)
TradesOn(d) == SelectSeq(trades, LAMBDA r : r.entry_date = d)

(* The market series has a row for date d whose moving average is defined
   and lies above its close *)
Downtrend(d) ==
    /\ has_market
    /\ LET rows == market_regime.rows IN
       \E k \in 1..Len(rows) :
          /\ rows[k].Date = d
          /\ ~IsNaN(rows[k].sma200)
          /\ RLt(rows[k].Close, rows[k].sma200)

(* C4: a day is evaluated only if the full lookback window precedes it and
   the full forward window follows it inside the preprocessed series; every
   log entry and every trade belongs to such a day. *)
C4_EvaluableRange ==
    /\ \A k \in VisitedSet :
          /\ k - lookback_window >= 0
          /\ k + forward_window <= Len(df) - 1
          /\ Len(PySlice(df, k - lookback_window, k)) = lookback_window
          /\ Len(PySlice(df, k + 1, k + 1 + forward_window)) = forward_window
    /\ \A j \in 1..Len(daily_logs) : IndexOfDate(daily_logs[j].date) \in VisitedSet
    /\ \A j \in 1..Len(trades) : IndexOfDate(trades[j].entry_date) \in VisitedSet
    /\ status \in {"running", "returned"}

C4_Witness ==
    /\ pc = "done"
    /\ Len(visited) >= 2
    /\ lookback_window \in VisitedSet
    /\ Len(df) - forward_window - 1 \in VisitedSet
    /\ TradesOn(DateOf(Len(df) - forward_window - 1)) # <<>>
    /\ TradesOn(DateOf(lookback_window)) # <<>>

(* C5: a day on which the market closes below its defined long-term moving
   average is skipped without scoring, log entry or trade; when that holds
   for every evaluable day the run ends with no log and no trade. *)
C5_DowntrendSkipped ==
    /\ \A k \in VisitedSet :
          Downtrend(DateOf(k)) =>
              /\ k \notin ScoredSet
              /\ LogsOn(DateOf(k)) = <<>>
              /\ TradesOn(DateOf(k)) = <<>>
    /\ (pc = "done" /\ \A k \in RangeStart..(RangeStop(df) - 1) : Downtrend(DateOf(k)))
          => (daily_logs = <<>> /\ trades = <<>>)

C5_Witness ==
    /\ pc = "done"
    /\ Len(visited) >= 2
    /\ \A k \in VisitedSet : Downtrend(DateOf(k))
    /\ daily_logs = <<>> /\ trades = <<>> /\ scored = <<>>

(* C6: an evaluated day is blocked by the regime filter exactly when market
   data is present for its date, the moving average is defined and the close
   is below it; without market data, or with an undefined moving average, the
   day is scored. *)
C6_BlockedIffDowntrend ==
    \A k \in VisitedSet : (k \in ScoredSet) <=> ~Downtrend(DateOf(k))

C6_Witness ==
    /\ has_market
    /\ \E k \in VisitedSet : Downtrend(DateOf(k)) /\ k \notin ScoredSet
    /\ \E k \in VisitedSet :
          /\ k \in ScoredSet
          /\ \E j \in 1..Len(market_regime.rows) :
                /\ market_regime.rows[j].Date = DateOf(k)
                /\ IsNaN(market_regime.rows[j].sma200)

(* C7: every evaluated day that passes the regime filter has exactly one log
   entry, and exactly one trade when its final score is at least the
   threshold, none otherwise. *)
C7_LogAndThreshold ==
    \A k \in VisitedSet :
        ~Downtrend(DateOf(k)) =>
            /\ Len(LogsOn(DateOf(k))) = 1
            /\ Len(TradesOn(DateOf(k))) =
                  IF LogsOn(DateOf(k))[1].final_score >= score_threshold THEN 1 ELSE 0

C7_Witness ==
    /\ \E k \in VisitedSet :
          /\ Len(LogsOn(DateOf(k))) = 1
          /\ LogsOn(DateOf(k))[1].final_score = score_threshold
          /\ Len(TradesOn(DateOf(k))) = 1
    /\ \E k \in VisitedSet :
          /\ Len(LogsOn(DateOf(k))) = 1
          /\ LogsOn(DateOf(k))[1].final_score < score_threshold
          /\ TradesOn(DateOf(k)) = <<>>

(* C8: days are processed in ascending date order, once each; log entries
   and trades are in ascending date order, and a step never changes a record
   appended by an earlier step. *)
C8_AscendingOnce ==
    [][ /\ \A j \in 1..(Len(visited') - 1) :
              /\ visited'[j + 1] = visited'[j] + 1
              /\ df'[visited'[j] + 1].Date < df'[visited'[j + 1] + 1].Date
        /\ \A j \in 1..(Len(daily_logs') - 1) : daily_logs'[j].date < daily_logs'[j + 1].date
        /\ \A j \in 1..(Len(trades') - 1) : trades'[j].entry_date < trades'[j + 1].entry_date
        /\ Len(daily_logs') >= Len(daily_logs)
        /\ SubSeq(daily_logs', 1, Len(daily_logs)) = daily_logs
        /\ Len(trades') >= Len(trades)
        /\ SubSeq(trades', 1, Len(trades)) = trades ]_vars

C8_Witness ==
    /\ pc = "done"
    /\ swapped
    /\ \E k \in 1..(Len(raw_df) - 1) : raw_df[k].Date > raw_df[k + 1].Date
    /\ Len(daily_logs) >= 2
    /\ Len(trades) >= 2

(* C9: a series shorter than lookback + forward + 50 rows gives an empty
   trade list and an empty log list, and the call returns normally. *)
C9_ShortSeriesEmpty ==
    (pc = "done" /\ Len(raw_df) < lookback_window + forward_window + Warmup)
        => (trades = <<>> /\ daily_logs = <<>> /\ visited = <<>> /\ status = "returned")

C9_Witness ==
    /\ pc = "done"
    /\ Len(raw_df) = lookback_window + forward_window + Warmup - 1
    /\ trades = <<>> /\ daily_logs = <<>>
    /\ status = "returned"

(* A component is a number between 0 and its maximum *)
Within(x, max) == ~IsNaN(x) /\ x.d > 0 /\ RLe(RZero, x) /\ RLe(x, RInt(max))

(* C10: whatever the scorer is called with, relative strength is within
   [0, relative_strength_score_max], volume within [0, volume_score_max],
   the SMA score is 0 or sma_bonus_score, and volatility is within
   [0, volatility_score_max]. *)
C10_ComponentBounds ==
    call.state = "returned" =>
        /\ Within(call.result.relative_strength_score, relative_strength_score_max)
        /\ Within(call.result.volume_score, volume_score_max)
        /\ call.result.sma_score \in {RZero, RInt(sma_bonus_score)}
        /\ Within(call.result.volatility_score, volatility_score_max)

C10_Witness ==
    /\ call.state = "returned"
    /\ RLt(RZero, call.result.relative_strength_score)
    /\ RLt(call.result.relative_strength_score, RInt(relative_strength_score_max))
    /\ call.result.volume_score = RInt(volume_score_max)
    /\ call.result.sma_score = RInt(sma_bonus_score)
    /\ RLt(RZero, call.result.volatility_score)
    /\ RLt(call.result.volatility_score, RInt(volatility_score_max))

(* C11: volatility gating.  Whenever the returned relative strength is not
   positive, or the price is not positive, or the ATR is NaN, the volatility
   score is exactly 0; a positive volatility score comes only with a
   positive relative strength. *)
C11_VolatilityGated ==
    call.state = "returned" =>
        /\ (\/ RLe(call.result.relative_strength_score, RZero)
            \/ call.current_price <= 0
            \/ IsNaN(call.atr14))
              => call.result.volatility_score = RZero
        /\ RLt(RZero, call.result.volatility_score)
              => RLt(RZero, call.result.relative_strength_score)

(* A call past the data gate with a low, defined ATR and a positive price,
   whose relative strength is 0: only the gate keeps the bonus at 0. *)
C11_Witness ==
    /\ call.state = "returned"
    /\ call.result.description = "RS Vol SMA Volatility"
    /\ call.result.relative_strength_score = RZero
    /\ call.current_price > 0
    /\ call.atr14 = RInt(1)
    /\ call.result.volatility_score = RZero

(* C12: with a positive ATR the levels bracket the entry price strictly,
   stop_loss < entry_price < take_profit, and the target distance is exactly
   twice the stop distance. *)
C12_PositiveAtrLevels ==
    (call.state = "returned" /\ RLt(RZero, call.current_atr)) =>
        /\ RLt(call.result.stop_loss, call.current_price)
        /\ RLt(call.current_price, call.result.take_profit)
        /\ RSub(call.result.take_profit, call.current_price) =
              RMul(RInt(2), RSub(call.current_price, call.result.stop_loss))

(* C13: with an ATR that is zero or negative both levels equal the entry
   price exactly, without rounding. *)
C13_NeutralLevels ==
    (call.state = "returned" /\ RLe(call.current_atr, RZero)) =>
        /\ call.result.stop_loss = call.current_price
        /\ call.result.take_profit = call.current_price

(* A zero ATR with a price that is not a whole number of cents *)
C13_Witness ==
    /\ call.state = "returned"
    /\ call.current_atr = RZero
    /\ Rat(Round2(call.current_price), 100) # call.current_price
    /\ call.result.stop_loss = call.current_price
    /\ call.result.take_profit = call.current_price

----------------------------------------------------------------------------
(* Properties of score(), continued *)

ScoreReturned == call.state = "returned" /\ "window_df" \in DOMAIN call

AllComponentsZero ==
    /\ call.result.relative_strength_score = RZero
    /\ call.result.volume_score = RZero
    /\ call.result.sma_score = RZero
    /\ call.result.volatility_score = RZero

(* C18: a window of fewer than relative_strength_lookback_days + 1 bars gets
   final_score 0, every component 0 and the insufficient-data description; a
   window of at least that many bars is scored, the gate does not fire. *)
C18_DataGate ==
    ScoreReturned =>
        IF Len(call.window_df) < relative_strength_lookback_days + 1
        THEN /\ call.result.final_score = 0
             /\ AllComponentsZero
             /\ call.result.description = "Not enough data"
        ELSE call.result.description = "RS Vol SMA Volatility"

(* One bar too few: the window is rejected although the price is above the
   average, which would earn the trend bonus. *)
C18_Witness ==
    /\ ScoreReturned
    /\ Len(call.window_df) = relative_strength_lookback_days
    /\ call.current_price = 110
    /\ call.sma50 = RInt(100)
    /\ call.result.final_score = 0
    /\ call.result.description = "Not enough data"

(* C19: final_score is the sum of the four returned components rounded to two
   decimals, with no further clamp, and lies between 0 and the sum of the
   component maxima. *)
C19_FinalIsRoundedSum ==
    ScoreReturned =>
        /\ call.result.final_score
              = Round2(RAdd(RAdd(call.result.relative_strength_score,
                                 call.result.volume_score),
                            RAdd(call.result.sma_score,
                                 call.result.volatility_score)))
        /\ call.result.final_score >= 0
        /\ call.result.final_score
              <= 100 * (relative_strength_score_max + volume_score_max
                        + sma_bonus_score + volatility_score_max)

(* A total above 10 made of four positive components *)
C19_Witness ==
    /\ ScoreReturned
    /\ call.result.final_score > 1000
    /\ RLt(RZero, call.result.relative_strength_score)
    /\ RLt(RZero, call.result.volume_score)
    /\ RLt(RZero, call.result.sma_score)
    /\ RLt(RZero, call.result.volatility_score)

(* The return the relative-strength component is computed from is not
   positive: the stock's return over the lookback does not exceed the
   market's, or, without a market window, the price is flat or declining. *)
MomentumInputNonPositive ==
    LET lookback == relative_strength_lookback_days + 1
        stock_return ==
            PeriodReturn(RInt(FromEnd(call.window_df, 1).Close),
                         RInt(FromEnd(call.window_df, lookback).Close))
    IN  IF Len(call.market_window_df) < lookback
        THEN RLe(stock_return, RZero)
        ELSE LET market_return ==
                     PeriodReturn(FromEnd(call.market_window_df, 1).Close,
                                  FromEnd(call.market_window_df, lookback).Close)
             IN  ~IsNaN(market_return)
                 /\ RLe(RSub(stock_return, market_return), RZero)

ZeroScoreScenario ==
    /\ ScoreReturned
    /\ Len(call.window_df) >= relative_strength_lookback_days + 1
    /\ MomentumInputNonPositive
    /\ RLe(RInt(FromEnd(call.window_df, 1).Volume),
           Median(Col(call.window_df, "Volume")))
    /\ (IsNaN(call.sma50) \/ RLe(RInt(call.current_price), call.sma50))

(* C20: a long enough window with a non-positive momentum input, a last volume
   not above the window median and a price not above the average scores 0 in
   all four components and in total, whatever the ATR. *)
C20_ZeroScoreScenario ==
    ZeroScoreScenario => (AllComponentsZero /\ call.result.final_score = 0)

(* The scenario with a low ATR and a price equal to the average, against a
   market window: only the momentum gate and the strict comparison keep the
   volatility and trend bonuses at 0. *)
C20_Witness ==
    /\ ZeroScoreScenario
    /\ Len(call.market_window_df) = relative_strength_lookback_days + 1
    /\ call.atr14 = RInt(1)
    /\ call.current_price = 100
    /\ call.sma50 = RInt(100)
    /\ call.result.final_score = 0

----------------------------------------------------------------------------
(* Properties of the LLM strategy and of the saved outputs *)

(* Log entries written from an llm_result without error: the days on which a
   score of the LLM reached run_backtest *)
UsableLlmDays ==
    {k \in 1..Len(daily_logs) : "llm_pattern_score" \in DOMAIN daily_logs[k]}

(* C14: with the LLM strategy no failure of a day's scoring call leaves
   run_backtest: the run never ends on an exception of the call, and every
   day whose call failed is logged with score 0 and the error tag. *)
C14_LlmFailureContained ==
    scorer_type = "llm" =>
        /\ status # "raised"
        /\ \A k \in 1..Len(daily_logs) :
               k \notin UsableLlmDays =>
                   /\ daily_logs[k].final_score = 0
                   /\ daily_logs[k].description = "LLM_ERROR"

(* C15: every usable LLM score that reached run_backtest is preceded by its
   audit record: there are at least as many audit lines as such scores. *)
C15_AuditPrecedesUsableScore ==
    Cardinality(UsableLlmDays) <= Len(audit_log)

(* C16: every run that returned and was saved has written both the trades
   table and the daily-log table. *)
C16_BothTablesWritten ==
    pc = "saved" =>
        /\ outputs.results_csv.written
        /\ outputs.run_log_csv.written

----------------------------------------------------------------------------
(* Properties of analyze_results *)

AnalyzeReturned == call.state = "returned" /\ "results_df" \in DOMAIN call

WinCount == Cardinality({k \in DOMAIN call.results_df.rows : call.results_df.rows[k] > 0})

GrossPositive ==
    SumSeq([k \in DOMAIN call.results_df.rows |->
               IF call.results_df.rows[k] > 0 THEN call.results_df.rows[k] ELSE 0])

GrossNegative ==
    SumSeq([k \in DOMAIN call.results_df.rows |->
               IF call.results_df.rows[k] < 0 THEN -call.results_df.rows[k] ELSE 0])

NoTradeSet ==
    \/ call.results_df.rows = <<>>
    \/ call.results_df.column \notin {"return_pct", "forward_return_pct"}

(* The metrics of a frame, each ratio passed through round_ *)
MetricsAre(round_(_)) ==
    IF NoTradeSet
    THEN call.result = EmptyMetrics
    ELSE /\ call.result.total_trades = Len(call.results_df.rows)
         /\ call.result.win_rate
                = round_(Rat(100 * WinCount, Len(call.results_df.rows)))
         /\ GrossNegative > 0 =>
                call.result.profit_factor
                    = round_(Rat(GrossPositive, GrossNegative))
         /\ GrossPositive > 0 /\ GrossNegative = 0 =>
                call.result.profit_factor = Inf
         /\ GrossPositive = 0 /\ GrossNegative > 0 =>
                call.result.profit_factor = RZero

Exactly(r) == r

ToCents(r) == Rat(Round2(r), 100)

(* C17 as stated: total_trades is the number of rows, win_rate is exactly 100
   times the fraction of rows with a positive return, profit_factor is exactly
   gross positive over gross absolute negative return, +infinity with wins
   and no losses, 0 with losses and no wins; an empty frame or one without a
   return column gives 0, 0.0, 0.0. *)
C17_ExactMetrics == AnalyzeReturned => MetricsAre(Exactly)

(* C17 amended: the same, with win_rate and a finite profit_factor rounded
   to two decimals. *)
C17_RoundedMetrics == AnalyzeReturned => MetricsAre(ToCents)

(* Two wins and a loss: win_rate 66.67, profit_factor 30 / 5 = 6.0 rounded *)
C17_Witness ==
    /\ AnalyzeReturned
    /\ ~NoTradeSet
    /\ WinCount = 2 /\ Len(call.results_df.rows) = 3
    /\ GrossNegative > 0
    /\ call.result.win_rate = Rat(6667, 100)

----------------------------------------------------------------------------
(* Properties of the windows and of the trade step *)

(* C22: on every evaluated day of a run with a market file the market window
   handed to the scorer covers the same dates as the stock window, the
   lookback_window enriched bars before the day. *)
C22_ParallelMarketWindow ==
    has_market =>
        \A n \in 1..Len(scored) :
            Col(MarketWindow(market_regime, scored[n]), "Date")
                = Col(PySlice(df, scored[n] - lookback_window, scored[n]), "Date")

----------------------------------------------------------------------------
(* Properties of download_ticker *)

FetchReturned == call.state = "returned" /\ "outcomes" \in DOMAIN call

(* What a returned call must show *)
BoundedRetry ==
    /\ call.attempts <= RETRIES
    /\ call.sleeps <= call.attempts
    /\ call.sleeps < RETRIES
    /\ FetchReturned =>
          /\ call.result \in BOOLEAN
          /\ call.dry_run => (call.attempts = 0 /\ call.result = TRUE)
          /\ call.attempts > 0 =>
                /\ \A a \in 1..(call.attempts - 1) : call.outcomes[a] = "raises"
                /\ call.sleeps = call.attempts - 1
                /\ call.outcomes[call.attempts] = "saved" => call.result = TRUE
                /\ call.outcomes[call.attempts] = "empty" => call.result = FALSE
                /\ call.outcomes[call.attempts] = "raises" =>
                       (call.attempts = RETRIES /\ call.result = FALSE)

(* C27: download_ticker makes at most RETRIES attempts, returns True at the
   first attempt that yields data, False at once on an empty answer, False
   after the last attempt raised, sleeps only before a further attempt, makes
   no attempt in dry-run mode and returns True, and always returns. *)
C27_BoundedRetry == []BoundedRetry /\ <>(call.state = "returned")

(* A first attempt that raises, one sleep, a second attempt that saves *)
C27_Witness ==
    /\ FetchReturned
    /\ call.attempts = RETRIES
    /\ call.sleeps = 1
    /\ call.outcomes[1] = "raises"
    /\ call.result = TRUE

(* C23: for every trade entered at position i the bars scanned for a touch
   are exactly those at i + 1 .. i + forward_window, neither the entry bar nor
   a later one, and forward_return_pct is the change from the entry close to
   the close forward_window bars later, in percent, rounded to two decimals. *)
C23_ForwardWindowExact ==
    \A t \in TradeSet :
        LET k == IndexOfDate(t.entry_date) IN
        /\ k + forward_window < Len(df)
        /\ t.outcome = STOP_LOSS_HIT <=> \E j \in Horizon : TouchesStop(t, j)
        /\ t.outcome = HOLD_20_DAYS <=> \A j \in Horizon : ~Touches(t, j)
        /\ t.forward_return_pct
              = Rat(Round2(Rat(100 * (ForwardBar(t, forward_window).Close
                                          - df[k + 1].Close),
                               df[k + 1].Close)), 100)

(* A trade held to the horizon although its entry bar dipped below the stop,
   closing lower forward_window bars later *)
C23_Witness ==
    \E t \in TradeSet :
        /\ t.outcome = HOLD_20_DAYS
        /\ RLe(RInt(ForwardBar(t, 0).Low), t.stop_loss)
        /\ RLt(t.forward_return_pct, RZero)

(* C25: trades are independent.  Every evaluated day whose score reaches the
   threshold has its trade, and the record is the one computed from that
   day's score, price, ATR and forward bars alone, whatever trades were
   recorded before and whether or not their forward windows are still open. *)
C25_TradesIndependent ==
    scorer_type = "deterministic" =>
        \A k \in ScoredSet :
            LET score_result == ScoreDay(df, market_regime, k) IN
            Triggers(score_result) =>
                TradesOn(DateOf(k)) = <<TradeEntry(df, k, score_result)>>

(* Two trades entered on consecutive days: the second while the forward
   window of the first is open *)
C25_Witness ==
    \E a, b \in 1..Len(trades) :
        /\ b = a + 1
        /\ trades[b].entry_date = trades[a].entry_date + 1
        /\ forward_window > 1

(* C30: the trades are a subset of the logged days.  Every trade has a log
   record of its entry date with final_score equal to its pattern_score, which
   is at least the threshold; there are never more trades than log records;
   and a step that appends a trade appends the log record of the same date. *)
C30_TradesSubsetOfLogs ==
    /\ [](/\ Len(trades) <= Len(daily_logs)
          /\ \A t \in TradeSet :
                /\ t.pattern_score >= score_threshold
                /\ \E n \in 1..Len(daily_logs) :
                      /\ daily_logs[n].date = t.entry_date
                      /\ daily_logs[n].final_score = t.pattern_score)
    /\ [][Len(trades') > Len(trades) =>
             /\ Len(daily_logs') = Len(daily_logs) + 1
             /\ daily_logs'[Len(daily_logs')].date
                   = trades'[Len(trades')].entry_date
             /\ daily_logs'[Len(daily_logs')].final_score
                   = trades'[Len(trades')].pattern_score]_vars

(* A run with fewer trades than logged days, and at least one trade *)
C30_Witness ==
    /\ Len(trades) > 0
    /\ Len(trades) < Len(daily_logs)
    /\ trades[Len(trades)].entry_date = daily_logs[Len(daily_logs)].date

(* C29: in a run of the deterministic scorer without a market file every
   logged day has relative strength 0 and volatility 0, its final_score is at
   most volume_score_max + sma_bonus_score, and, the threshold being above
   that, no trade is recorded. *)
C29_NoMarketNoTrade ==
    (scorer_type = "deterministic" /\ ~has_market) =>
        /\ \A n \in 1..Len(daily_logs) :
               /\ daily_logs[n].relative_strength_score = RZero
               /\ daily_logs[n].volatility_score = RZero
               /\ daily_logs[n].final_score
                     <= 100 * (volume_score_max + sma_bonus_score)
        /\ score_threshold > 100 * (volume_score_max + sma_bonus_score)
        /\ trades = <<>>

(* A finished run without a market file whose days scored on volume and trend *)
C29_Witness ==
    /\ ~has_market
    /\ pc = "done"
    /\ status = "returned"
    /\ \E n \in 1..Len(daily_logs) :
          /\ RLt(RZero, daily_logs[n].volume_score)
          /\ daily_logs[n].sma_score = RInt(sma_bonus_score)
          /\ daily_logs[n].final_score > 100 * sma_bonus_score
    /\ trades = <<>>

----------------------------------------------------------------------------
(* Properties of the enriched series *)

(* Rows the indicators need before they are all defined *)
WarmupRows == Max2(sma50_period - 1, atr_period)

(* C26: the enriched series has no row with an undefined sma50, atr14 or
   pct_change, it is the sorted raw series without its first
   max(sma50_period - 1, atr_period) rows, and so every evaluated day and
   every row of its lookback window has defined indicators. *)
C26_NoPartialWarmup ==
    df # <<>> =>
        /\ Len(df) = Len(raw_df) - WarmupRows
        /\ \A k \in 1..Len(df) :
               /\ df[k].Date = WarmupRows + k
               /\ ~IsNaN(df[k].sma50)
               /\ ~IsNaN(df[k].atr14)
               /\ ~IsNaN(df[k].pct_change)
        /\ \A n \in 1..Len(visited) :
               /\ visited[n] - lookback_window >= 0
               /\ visited[n] + 1 <= Len(df)

(* An unsorted file enriched, with a day evaluated on it *)
C26_Witness ==
    /\ swapped
    /\ Len(df) > lookback_window + forward_window
    /\ Len(visited) > 0
    /\ df[1].Date = WarmupRows + 1
    /\ ~IsNaN(df[1].sma50)

----------------------------------------------------------------------------
(* Properties of the trade step *)

TradeAppended ==
    /\ call.state = "returned"
    /\ "appended" \in DOMAIN call
    /\ call.appended # <<>>

Finite(x) == x.d # 0

(* C21: no NaN or infinite value appears in what a trade record depends on:
   the levels and the forward return of every recorded trade are finite, its
   outcome is one of the three labels and its score is a number. *)
C21_TradeValuesFinite ==
    TradeAppended =>
        LET t == call.appended[1] IN
        /\ t.pattern_score \in Int
        /\ Finite(t.stop_loss)
        /\ Finite(t.take_profit)
        /\ t.outcome \in {STOP_LOSS_HIT, TAKE_PROFIT_HIT, HOLD_20_DAYS}
        /\ Finite(t.forward_return_pct)

(* C24: a trade entered on a day whose ATR is not positive carries the entry
   price as both levels, and is never labelled STOP_LOSS_HIT or
   TAKE_PROFIT_HIT from comparing the forward bars with them. *)
C24_SentinelLevelsUnused ==
    (TradeAppended /\ RLe(call.frame[1].atr14, RZero)) =>
        /\ call.appended[1].stop_loss = RInt(call.frame[1].Close)
        /\ call.appended[1].take_profit = RInt(call.frame[1].Close)
        /\ call.appended[1].outcome = HOLD_20_DAYS

---------------------------------------------------------------------------
(* Properties of the scorer's inputs *)

(* The input with every day after date d replaced by a plain day *)
MaskAfter(ds, d) ==
    [p \in 1..Len(ds) |-> IF FillerLen + p <= d THEN ds[p] ELSE PlainDay]

(* The score result of df position k when nothing after its date is known *)
ScoreOfPast(k) ==
    LET past == MaskAfter(days, df[k + 1].Date)
    IN  ScoreDay(preprocess_data(RawFrame(past, swapped, descending)),
                 IF has_market THEN MarketFrame(past, swapped, descending)
                 ELSE None, k)

(* C28: the log record and the trigger decision of every scored day are
   those obtained from the bars and market rows dated up to that day: what
   comes after the day has no influence on them. *)
C28_NoLookAhead ==
    \A j \in 1..Len(daily_logs) :
        LET k == scored[j] IN
        /\ daily_logs[j] = LogEntry(df, k, ScoreOfPast(k))
        /\ (k < i \/ pc = "done" \/ pc = "saved") =>
              (TradesOn(df[k + 1].Date) # <<>> <=> Triggers(ScoreOfPast(k)))

============================================================================
